---- MODULE Spec2Model ----
(***************************************************************************)
(* lwpkt-rs: the packet codec LwPkt (framing state machine over two byte   *)
(* ring buffers) and its bridge LwPktRaw (two bounded channels of byte     *)
(* chunks), src/src/lib.rs.                                                *)
(*                                                                         *)
(* The C library behind `mod ffi` (lwrb ring buffer, lwpkt framing) is not *)
(* part of src/; its operators below follow the specification (sections 3, *)
(* 4.1, 4.2, 6) and are marked so in the model map.                        *)
(***************************************************************************)
EXTENDS Integers, Sequences, FiniteSets, TLC

\* ------------------------------------------------------------------ bounds
\* Capacity of each async_channel::bounded(..) of LwPkt::new; the code's 64,
\* scaled down so that a full channel is reached within a few writes.
ChanCap == 2
\* Length of the drain buffer of LwPkt::write; the code's vec![0u8; 1024],
\* scaled down together with the frame lengths.
DrainBuf == 8
\* LWPKT_CFG_MAX_DATA_LEN (set at build time, build.rs:63-65), scaled down.
MAX_DATA_LEN == 2
\* Sizes the two LwRb ring buffers are constructed with (LwRb::new(size)).
SmallRb == 5
BigRb == 20
\* Size of an outbound ring that holds the longest frame and nothing more.
WriteRb == 9
\* LwPkt::write calls per behaviour of the outbound and the loop-back
\* specification.
OutWrites == 3
LoopWrites == 1
\* Frames per inbound stream of the inbound specification.
MaxFrames == 2

\* ------------------------------------------------------------- byte helpers
Min(a, b) == IF a < b THEN a ELSE b

RECURSIVE Xor(_, _)
Xor(a, b) ==
    IF a = 0 THEN b
    ELSE IF b = 0 THEN a
    ELSE (((a % 2) + (b % 2)) % 2) + 2 * Xor(a \div 2, b \div 2)

RECURSIVE Flatten(_)
Flatten(chunks) ==
    IF chunks = <<>> THEN <<>> ELSE Head(chunks) \o Flatten(Tail(chunks))

Take(xs, n) == SubSeq(xs, 1, Min(n, Len(xs)))
Drop(xs, n) == SubSeq(xs, Min(n, Len(xs)) + 1, Len(xs))
IsPrefix(xs, t) == Len(xs) <= Len(t) /\ SubSeq(t, 1, Len(xs)) = xs

\* ------------------------------------------------- ffi: lwrb (ring buffer)
\* A ring is the sequence of its unread bytes, oldest first, of a fixed size.
\* write stores the prefix that fits and returns its length.
lwrb_write(rb, size, data) ==
    LET stored == Min(size - Len(rb), Len(data))
    IN  [res |-> stored, rb |-> rb \o SubSeq(data, 1, stored)]

\* read takes up to btr of the bytes available, FIFO.
lwrb_read(rb, btr) ==
    LET taken == Min(btr, Len(rb))
    IN  [res |-> taken, out |-> SubSeq(rb, 1, taken), rb |-> SubSeq(rb, taken + 1, Len(rb))]

\* ------------------------------------------------------- ffi: lwpkt framing
START_BYTE == 170
STOP_BYTE == 85
CRC_POLY == 140

\* One byte into the running 8-bit checksum, bit by bit: the low bit of crc
\* XOR inbyte decides whether the polynomial is mixed in after the shift.
RECURSIVE crc_bits(_, _, _)
crc_bits(crc, inbyte, i) ==
    IF i = 0 THEN crc
    ELSE LET mix == (crc + inbyte) % 2
             c1 == crc \div 2
             c2 == IF mix = 1 THEN Xor(c1, CRC_POLY) ELSE c1
         IN  crc_bits(c2, inbyte \div 2, i - 1)

\* crc_bits of every running checksum with a zero byte; a byte b goes in as
\* CrcTable[crc XOR b], which is crc_bits(crc, b, 8).
CrcTable == [c \in 0..255 |-> crc_bits(c, 0, 8)]

crc_in(crc, b) == CrcTable[Xor(crc, b)]

RECURSIVE crc_seq(_, _)
crc_seq(crc, xs) ==
    IF xs = <<>> THEN crc ELSE crc_seq(CrcTable[Xor(crc, Head(xs))], Tail(xs))

\* Payload length on the wire: 7 bits per byte, low group first, the top bit
\* set on every byte but the last.
RECURSIVE EncodeLen(_)
EncodeLen(n) ==
    IF n < 128 THEN <<n>> ELSE <<128 + (n % 128)>> \o EncodeLen(n \div 128)

\* The frame of a packet sent by the codec whose local address is addr:
\* start, from, to, cmd, length, payload, checksum over header and payload,
\* stop.
Frame(addr, to, cmd, data) ==
    LET body == <<addr, to, cmd>> \o EncodeLen(Len(data)) \o data
    IN  <<START_BYTE>> \o body \o <<crc_seq(0, body)>> \o <<STOP_BYTE>>

\* lwpkt_write: ERRMEM when the payload is longer than MAX_DATA_LEN or the
\* frame does not fit the free space of the outbound ring; otherwise the
\* whole frame is appended.
lwpkt_write(addr, tx_rb, tx_size, to, cmd, data) ==
    LET frame == Frame(addr, to, cmd, data)
    IN  IF Len(data) > MAX_DATA_LEN \/ Len(frame) > tx_size - Len(tx_rb)
        THEN [res |-> "ErrorMem", rb |-> tx_rb]
        ELSE [res |-> "Ok", rb |-> tx_rb \o frame]

\* Decoder states.
ST_START == "START"
ST_FROM == "FROM"
ST_TO == "TO"
ST_CMD == "CMD"
ST_LEN == "LEN"
ST_DATA == "DATA"
ST_CRC == "CRC"
ST_STOP == "STOP"

\* The decode part of ffi::lwpkt after lwpkt_init: idle, nothing decoded.
IdleM == [state |-> ST_START, from |-> 0, to |-> 0, cmd |-> 0, len |-> 0,
          index |-> 0, crc |-> 0, data |-> <<>>]

Pow128(i) == IF i = 0 THEN 1 ELSE IF i = 1 THEN 128 ELSE 16384

\* One byte through the state machine: [m, res], res = "" while the frame
\* goes on.
lwpkt_byte(m, b) ==
    CASE m.state = ST_START ->
           IF b = START_BYTE
           THEN [m |-> [IdleM EXCEPT !.state = ST_FROM], res |-> ""]
           ELSE [m |-> m, res |-> ""]
      [] m.state = ST_FROM ->
           [m |-> [m EXCEPT !.from = b, !.crc = crc_in(m.crc, b), !.state = ST_TO],
            res |-> ""]
      [] m.state = ST_TO ->
           [m |-> [m EXCEPT !.to = b, !.crc = crc_in(m.crc, b), !.state = ST_CMD],
            res |-> ""]
      [] m.state = ST_CMD ->
           [m |-> [m EXCEPT !.cmd = b, !.crc = crc_in(m.crc, b), !.state = ST_LEN],
            res |-> ""]
      [] m.state = ST_LEN ->
           LET new_len == m.len + (b % 128) * Pow128(m.index)
               is_last == b < 128
           IN  [m |-> [m EXCEPT !.len = new_len,
                                !.crc = crc_in(m.crc, b),
                                !.index = IF is_last THEN 0 ELSE m.index + 1,
                                !.state = IF ~is_last THEN ST_LEN
                                          ELSE IF new_len = 0 THEN ST_CRC
                                          ELSE ST_DATA],
                res |-> ""]
      [] m.state = ST_DATA ->
           IF m.index < MAX_DATA_LEN
           THEN [m |-> [m EXCEPT !.data = Append(m.data, b),
                                 !.index = m.index + 1,
                                 !.crc = crc_in(m.crc, b),
                                 !.state = IF m.index + 1 = m.len
                                           THEN ST_CRC ELSE ST_DATA],
                 res |-> ""]
           ELSE [m |-> [m EXCEPT !.state = ST_START], res |-> "ErrorMem"]
      [] m.state = ST_CRC ->
           IF crc_in(m.crc, b) = 0
           THEN [m |-> [m EXCEPT !.crc = 0, !.state = ST_STOP], res |-> ""]
           ELSE [m |-> [m EXCEPT !.state = ST_START], res |-> "ErrorCRC"]
      [] OTHER ->
           [m |-> [m EXCEPT !.state = ST_START],
            res |-> IF b = STOP_BYTE THEN "Valid" ELSE "ErrStop"]

\* lwpkt_read: takes bytes from the inbound ring one at a time until the ring
\* is empty or a frame ends (Valid or an error); the bytes after the end of
\* that frame stay in the ring.
RECURSIVE lwpkt_read(_, _)
lwpkt_read(m, rb) ==
    IF rb = <<>>
    THEN [res |-> IF m.state = ST_START THEN "WaitData" ELSE "InProgress",
          m |-> m, rb |-> rb]
    ELSE LET step == lwpkt_byte(m, Head(rb))
         IN  IF step.res # ""
             THEN [res |-> step.res, m |-> step.m, rb |-> Tail(rb)]
             ELSE lwpkt_read(step.m, Tail(rb))

\* ------------------------------------------------------- async_channel
\* A bounded channel is the sequence of the chunks queued on it; it is closed
\* once the half holding its other end has been dropped.
try_send(chan, closed, v) ==
    IF closed THEN [res |-> "Closed", chan |-> chan]
    ELSE IF Len(chan) >= ChanCap THEN [res |-> "Full", chan |-> chan]
    ELSE [res |-> "Ok", chan |-> Append(chan, v)]

\* Variant of try_recv: an empty channel is reported as Empty also after
\* the sender was dropped.
try_recv_NeverClosed(chan, closed) ==
    IF chan # <<>> THEN [res |-> "Ok", v |-> Head(chan), chan |-> Tail(chan)]
    ELSE [res |-> "Empty", v |-> <<>>, chan |-> chan]

\* try_recv: the oldest chunk; Empty while the sender lives, Closed after.
try_recv(chan, closed) ==
    IF chan # <<>> THEN [res |-> "Ok", v |-> Head(chan), chan |-> Tail(chan)]
    ELSE IF closed THEN [res |-> "Closed", v |-> <<>>, chan |-> chan]
    ELSE [res |-> "Empty", v |-> <<>>, chan |-> chan]

\* ------------------------------------------------------------ LwPkt::write
\* The drain loop of LwPkt::write: up to DrainBuf bytes are taken from the
\* outbound ring and acc as one chunk, until the ring is empty or a push
\* fails. acc collects the chunks that were acc.
\* Variant of DrainLoop: a chunk the full channel refuses is dropped and
\* the loop goes on.
RECURSIVE DrainLoop_IgnoreFull(_, _, _, _)
DrainLoop_IgnoreFull(wb, chan, closed, acc) ==
    LET rd == lwrb_read(wb, DrainBuf)
    IN  IF rd.res = 0
        THEN [ret |-> "Ok", wb |-> rd.rb, chan |-> chan, pushed |-> acc]
        ELSE LET snd == try_send(chan, closed, rd.out)
             IN  IF snd.res = "Ok"
                 THEN DrainLoop_IgnoreFull(rd.rb, snd.chan, closed, acc \o rd.out)
                 ELSE IF snd.res = "Full"
                 THEN DrainLoop_IgnoreFull(rd.rb, chan, closed, acc)
                 ELSE [ret |-> "ErrorClosedRaw", wb |-> rd.rb, chan |-> chan,
                       pushed |-> acc]

\* The drain loop of LwPkt::write: up to DrainBuf bytes are taken from the
\* outbound ring and pushed as one chunk, until the ring is empty or a push
\* fails. acc collects the chunks that were pushed.
RECURSIVE DrainLoop(_, _, _, _)
DrainLoop(wb, chan, closed, acc) ==
    LET rd == lwrb_read(wb, DrainBuf)
    IN  IF rd.res = 0
        THEN [ret |-> "Ok", wb |-> rd.rb, chan |-> chan, pushed |-> acc]
        ELSE LET snd == try_send(chan, closed, rd.out)
             IN  IF snd.res = "Ok"
                 THEN DrainLoop(rd.rb, snd.chan, closed, acc \o rd.out)
                 ELSE IF snd.res = "Full"
                 THEN [ret |-> "ErrorMem", wb |-> rd.rb, chan |-> chan,
                       pushed |-> acc]
                 ELSE [ret |-> "ErrorClosedRaw", wb |-> rd.rb, chan |-> chan,
                       pushed |-> acc]

\* Variant of LwPktWrite: the ring is drained whatever the encoder returned.
LwPktWrite_DrainAlways(addr, wb, wb_size, chan, closed, package) ==
    LET enc == lwpkt_write(addr, wb, wb_size, package.to, package.cmd,
                           package.data)
        drn == DrainLoop(enc.rb, chan, closed, <<>>)
    IN  IF enc.res # "Ok"
        THEN [ret |-> enc.res, stage |-> "encode", wb |-> drn.wb,
              chan |-> drn.chan, pushed |-> drn.pushed]
        ELSE [ret |-> drn.ret, stage |-> "channel", wb |-> drn.wb,
              chan |-> drn.chan, pushed |-> drn.pushed]

\* Variant of LwPktWrite: the frame carries the caller's from field.
LwPktWrite_CallerFrom(addr, wb, wb_size, chan, closed, package) ==
    LET enc == lwpkt_write(package.from, wb, wb_size, package.to, package.cmd,
                           package.data)
    IN  IF enc.res # "Ok"
        THEN [ret |-> enc.res, stage |-> "encode", wb |-> enc.rb, chan |-> chan,
              pushed |-> <<>>]
        ELSE LET drn == DrainLoop(enc.rb, chan, closed, <<>>)
             IN  [ret |-> drn.ret, stage |-> "channel", wb |-> drn.wb,
                  chan |-> drn.chan, pushed |-> drn.pushed]

\* LwPkt::write(package): the frame is encoded into the outbound ring, then
\* the ring is drained into the outbound channel. stage tells where an error
\* was raised.
LwPktWrite(addr, wb, wb_size, chan, closed, package) ==
    LET enc == lwpkt_write(addr, wb, wb_size, package.to, package.cmd, package.data)
    IN  IF enc.res # "Ok"
        THEN [ret |-> enc.res, stage |-> "encode", wb |-> enc.rb, chan |-> chan,
              pushed |-> <<>>]
        ELSE LET drn == DrainLoop(enc.rb, chan, closed, <<>>)
             IN  [ret |-> drn.ret, stage |-> "channel", wb |-> drn.wb,
                  chan |-> drn.chan, pushed |-> drn.pushed]

\* ------------------------------------------------------------- LwPkt::read
get_data(m) == SubSeq(m.data, 1, Min(m.len, Len(m.data)))
get_cmd(m) == m.cmd
get_from(m) == m.from
get_to(m) == m.to

DecodedPackage(m) ==
    [cmd |-> get_cmd(m), data |-> get_data(m), from |-> get_from(m),
     to |-> get_to(m)]

\* Variant of FeedChunk: the position advances past the whole rest of the
\* chunk, whatever the ring stored.
RECURSIVE FeedChunk_SkipRest(_, _, _, _, _, _)
FeedChunk_SkipRest(buffer, from, m, rb, rb_size, results) ==
    IF from >= Len(buffer)
    THEN [ret |-> "Ok", m |-> m, rb |-> rb, results |-> results, stored |-> from]
    ELSE LET wr == lwrb_write(rb, rb_size, SubSeq(buffer, from + 1, Len(buffer)))
             dec == lwpkt_read(m, wr.rb)
         IN  IF dec.res = "Valid"
             THEN FeedChunk_SkipRest(buffer, Len(buffer), dec.m, dec.rb, rb_size,
                                     Append(results, DecodedPackage(dec.m)))
             ELSE IF dec.res \in {"WaitData", "InProgress"}
             THEN FeedChunk_SkipRest(buffer, Len(buffer), dec.m, dec.rb, rb_size,
                                     results)
             ELSE [ret |-> dec.res, m |-> dec.m, rb |-> dec.rb,
                   results |-> results, stored |-> from + wr.res]

\* Variant of FeedChunk: a decoded package is put in front of the results.
RECURSIVE FeedChunk_PushFront(_, _, _, _, _, _)
FeedChunk_PushFront(buffer, from, m, rb, rb_size, results) ==
    IF from >= Len(buffer)
    THEN [ret |-> "Ok", m |-> m, rb |-> rb, results |-> results, stored |-> from]
    ELSE LET wr == lwrb_write(rb, rb_size, SubSeq(buffer, from + 1, Len(buffer)))
             dec == lwpkt_read(m, wr.rb)
         IN  IF dec.res = "Valid"
             THEN FeedChunk_PushFront(buffer, from + wr.res, dec.m, dec.rb, rb_size,
                                      <<DecodedPackage(dec.m)>> \o results)
             ELSE IF dec.res \in {"WaitData", "InProgress"}
             THEN FeedChunk_PushFront(buffer, from + wr.res, dec.m, dec.rb, rb_size,
                                      results)
             ELSE [ret |-> dec.res, m |-> dec.m, rb |-> dec.rb,
                   results |-> results, stored |-> from + wr.res]

\* The inner loop of LwPkt::read over one received chunk: the rest of the
\* chunk is offered to the inbound ring, the decoder is run once, and the
\* position advances by what the ring stored. stored counts the bytes of the
\* chunk that were written into the ring. An iteration that stores nothing,
\* decodes nothing and leaves ring and decoder as they were repeats for
\* ever: the call does not return ("NoReturn").
RECURSIVE FeedChunk(_, _, _, _, _, _)
FeedChunk(buffer, from, m, rb, rb_size, results) ==
    IF from >= Len(buffer)
    THEN [ret |-> "Ok", m |-> m, rb |-> rb, results |-> results, stored |-> from]
    ELSE LET wr == lwrb_write(rb, rb_size, SubSeq(buffer, from + 1, Len(buffer)))
             dec == lwpkt_read(m, wr.rb)
         IN  IF dec.res = "Valid"
             THEN FeedChunk(buffer, from + wr.res, dec.m, dec.rb, rb_size,
                            Append(results, DecodedPackage(dec.m)))
             ELSE IF dec.res \in {"WaitData", "InProgress"}
             THEN IF wr.res = 0 /\ dec.rb = rb /\ dec.m = m
                  THEN [ret |-> "NoReturn", m |-> m, rb |-> rb,
                        results |-> results, stored |-> from]
                  ELSE FeedChunk(buffer, from + wr.res, dec.m, dec.rb, rb_size,
                                 results)
             ELSE [ret |-> dec.res, m |-> dec.m, rb |-> dec.rb,
                   results |-> results, stored |-> from + wr.res]

\* Variant of ReadLoop: an empty channel is followed by one more run of the
\* decoder over the ring.
RECURSIVE ReadLoop_DecodeOnEmpty(_, _, _, _, _, _)
ReadLoop_DecodeOnEmpty(chan, closed, m, rb, rb_size, results) ==
    LET rcv == try_recv(chan, closed)
    IN  IF rcv.res = "Ok"
        THEN LET fc == FeedChunk(rcv.v, 0, m, rb, rb_size, results)
             IN  IF fc.ret = "Ok"
                 THEN ReadLoop_DecodeOnEmpty(rcv.chan, closed, fc.m, fc.rb,
                                             rb_size, fc.results)
                 ELSE [ret |-> fc.ret, pkgs |-> <<>>, chan |-> rcv.chan,
                       m |-> fc.m, rb |-> fc.rb, decoded |-> fc.results,
                       dropped |-> SubSeq(rcv.v, fc.stored + 1, Len(rcv.v))]
        ELSE IF rcv.res = "Empty"
        THEN LET dec == lwpkt_read(m, rb)
                 more == IF dec.res = "Valid"
                         THEN Append(results, DecodedPackage(dec.m)) ELSE results
             IN  [ret |-> "Ok", pkgs |-> more, chan |-> rcv.chan, m |-> dec.m,
                  rb |-> dec.rb, decoded |-> more, dropped |-> <<>>]
        ELSE [ret |-> "ErrorClosedRaw", pkgs |-> <<>>, chan |-> rcv.chan,
              m |-> m, rb |-> rb, decoded |-> results, dropped |-> <<>>]

\* LwPkt::read(): chunks are taken from the inbound channel until it is
\* empty (Ok with the packages decoded), a decode error or a closed channel
\* (Err; the packages decoded so far are not returned). decoded is what was
\* pushed to results during the call, dropped the bytes of the chunk in hand
\* that were not written into the ring when the call ended.
RECURSIVE ReadLoop(_, _, _, _, _, _)
ReadLoop(chan, closed, m, rb, rb_size, results) ==
    LET rcv == try_recv(chan, closed)
    IN  IF rcv.res = "Ok"
        THEN LET fc == FeedChunk(rcv.v, 0, m, rb, rb_size, results)
             IN  IF fc.ret = "Ok"
                 THEN ReadLoop(rcv.chan, closed, fc.m, fc.rb, rb_size, fc.results)
                 ELSE [ret |-> fc.ret, pkgs |-> <<>>, chan |-> rcv.chan,
                       m |-> fc.m, rb |-> fc.rb, decoded |-> fc.results,
                       dropped |-> SubSeq(rcv.v, fc.stored + 1, Len(rcv.v))]
        ELSE IF rcv.res = "Empty"
        THEN [ret |-> "Ok", pkgs |-> results, chan |-> rcv.chan, m |-> m,
              rb |-> rb, decoded |-> results, dropped |-> <<>>]
        ELSE [ret |-> "ErrorClosedRaw", pkgs |-> <<>>, chan |-> rcv.chan,
              m |-> m, rb |-> rb, decoded |-> results, dropped |-> <<>>]

LwPktRead(chan, closed, m, rb, rb_size) == ReadLoop(chan, closed, m, rb, rb_size, <<>>)

\* ---------------------------------------------------------- LwPktRaw::read
\* Variant of RawRecvLoop: a chunk shorter than the room left ends the call.
RawRecvLoop_OneChunk(chan, closed, n, out, last) ==
    LET rcv == try_recv(chan, closed)
        room == n - Len(out)
    IN  IF rcv.res = "Ok"
        THEN IF room < Len(rcv.v)
             THEN [ret |-> "Ok", cnt |-> n, out |-> out \o SubSeq(rcv.v, 1, room),
                   last_read |-> SubSeq(rcv.v, room + 1, Len(rcv.v)),
                   chan |-> rcv.chan]
             ELSE [ret |-> "Ok", cnt |-> Len(out) + Len(rcv.v),
                   out |-> out \o rcv.v, last_read |-> last, chan |-> rcv.chan]
        ELSE IF rcv.res = "Empty"
        THEN [ret |-> "Ok", cnt |-> Len(out), out |-> out, last_read |-> last,
              chan |-> rcv.chan]
        ELSE [ret |-> "Err", cnt |-> 0, out |-> out, last_read |-> last,
              chan |-> rcv.chan]

\* The receive loop of LwPktRaw::read: out is what has been copied into the
\* caller's buffer of length n so far.
RECURSIVE RawRecvLoop(_, _, _, _, _)
RawRecvLoop(chan, closed, n, out, last) ==
    LET rcv == try_recv(chan, closed)
        room == n - Len(out)
    IN  IF rcv.res = "Ok"
        THEN IF room < Len(rcv.v)
             THEN [ret |-> "Ok", cnt |-> n, out |-> out \o SubSeq(rcv.v, 1, room),
                   last_read |-> SubSeq(rcv.v, room + 1, Len(rcv.v)), chan |-> rcv.chan]
             ELSE IF room = Len(rcv.v)
             THEN [ret |-> "Ok", cnt |-> n, out |-> out \o rcv.v,
                   last_read |-> last, chan |-> rcv.chan]
             ELSE RawRecvLoop(rcv.chan, closed, n, out \o rcv.v, last)
        ELSE IF rcv.res = "Empty"
        THEN [ret |-> "Ok", cnt |-> Len(out), out |-> out, last_read |-> last,
              chan |-> rcv.chan]
        ELSE [ret |-> "Err", cnt |-> 0, out |-> out, last_read |-> last,
              chan |-> rcv.chan]

\* LwPktRaw::read(buf) with a buffer of length n: first the remainder kept in
\* last_read, then chunks from the outbound channel.
LwPktRawRead(last, chan, closed, n) ==
    IF last # <<>>
    THEN IF n < Len(last)
         THEN [ret |-> "Ok", cnt |-> n, out |-> SubSeq(last, 1, n),
               last_read |-> SubSeq(last, n + 1, Len(last)), chan |-> chan]
         ELSE IF n = Len(last)
         THEN [ret |-> "Ok", cnt |-> n, out |-> last, last_read |-> <<>>,
               chan |-> chan]
         ELSE RawRecvLoop(chan, closed, n, last, <<>>)
    ELSE RawRecvLoop(chan, closed, n, <<>>, last)

\* --------------------------------------------------------- LwPktRaw::write
\* Variant of LwPktRawWrite: a full channel is reported as a complete write.
LwPktRawWrite_FullCounts(chan, closed, buf) ==
    LET snd == try_send(chan, closed, buf)
    IN  IF snd.res = "Ok" THEN [ret |-> "Ok", cnt |-> Len(buf), chan |-> snd.chan]
        ELSE IF snd.res = "Full" THEN [ret |-> "Ok", cnt |-> Len(buf), chan |-> chan]
        ELSE [ret |-> "Err", cnt |-> 0, chan |-> chan]

\* LwPktRaw::write(buf): the whole buffer becomes one chunk of the inbound
\* channel, or nothing is queued.
LwPktRawWrite(chan, closed, buf) ==
    LET snd == try_send(chan, closed, buf)
    IN  IF snd.res = "Ok" THEN [ret |-> "Ok", cnt |-> Len(buf), chan |-> snd.chan]
        ELSE IF snd.res = "Full" THEN [ret |-> "Ok", cnt |-> 0, chan |-> chan]
        ELSE [ret |-> "Err", cnt |-> 0, chan |-> chan]

\* ------------------------------------------------------------------ inputs
\* A payload of n bytes; it holds the two delimiter values.
DataOf(n) == [i \in 1..n |-> IF i % 2 = 1 THEN START_BYTE ELSE STOP_BYTE]

\* Packages handed to LwPkt::write: an empty payload, the longest payload,
\* and one that is too long. cmd stays within one byte.
Packages ==
    { [cmd |-> 133, from |-> 0, to |-> 17, data |-> DataOf(0)],
      [cmd |-> 1, from |-> 7, to |-> 2, data |-> DataOf(MAX_DATA_LEN)],
      [cmd |-> 2, from |-> 0, to |-> 3, data |-> DataOf(MAX_DATA_LEN + 1)] }

\* Local addresses given to set_addres.
Addrs == {18}

\* Buffer lengths the transport calls LwPktRaw::read with.
ReadSizes == {0, 1, 3, BigRb}

\* Lengths of the pieces the transport hands to LwPktRaw::write, besides
\* everything it holds.
ChunkSizes == {1, 3}

\* Bit masks for the corruption of one byte of a frame.
FlipMasks == {1, 128}

\* The frame of package p as sent by a codec with local address a.
FrameOf(a, p) == Frame(a, p.to, p.cmd, p.data)

\* An inbound frame: the package a correct decoder reports for it, and the
\* byte (pos, 0 for none) whose bits in mask are flipped on the way.
FrameItems ==
    LET good == {p \in Packages : Len(p.data) <= MAX_DATA_LEN}
    IN  UNION { LET expect == [p EXCEPT !.from = a]
                    flen == Len(FrameOf(a, p))
                IN  {[pkt |-> expect, pos |-> 0, mask |-> 0]} \cup
                    {[pkt |-> expect, pos |-> i, mask |-> k] :
                        i \in (flen - 1 - Len(p.data))..(flen - 1), k \in FlipMasks}
              : a \in Addrs, p \in good }

ItemBytes(it) ==
    LET fr == FrameOf(it.pkt.from, it.pkt)
    IN  IF it.pos = 0 THEN fr
        ELSE [fr EXCEPT ![it.pos] = Xor(fr[it.pos], it.mask)]

RECURSIVE PlanBytes(_)
PlanBytes(pl) ==
    IF pl = <<>> THEN <<>> ELSE ItemBytes(Head(pl)) \o PlanBytes(Tail(pl))

\* Inbound streams: up to MaxFrames frames, at most one of them corrupted,
\* and a corrupted frame is followed by a valid one.
Plans ==
    {pl \in UNION {[1..k -> FrameItems] : k \in 1..MaxFrames} :
        /\ Cardinality({i \in DOMAIN pl : pl[i].pos # 0}) <= 1
        /\ pl[Len(pl)].pos = 0}

NoPackage == [cmd |-> 0, from |-> 0, to |-> 0, data |-> <<>>]
NoOp == [name |-> "new", ret |-> "Ok", stage |-> "", cnt |-> 0, n |-> 0,
         buf |-> <<>>, pkgs |-> <<>>, package |-> NoPackage, decoded |-> <<>>]

\* ------------------------------------------------------------------- state
VARIABLES
    lwpkt,          \* LwPkt.lwpkt: [addr, m] local address and decoder
    read_buffer,    \* LwPkt.read_buffer: bytes in the inbound ring
    write_buffer,   \* LwPkt.write_buffer: bytes in the outbound ring
    rsize, wsize,   \* sizes the two rings were constructed with
    to_raw,         \* outbound channel LwPkt.to_raw -> LwPktRaw.from_pkt
    from_raw,       \* inbound channel LwPktRaw.to_pkt -> LwPkt.from_raw
    last_read,      \* LwPktRaw.last_read
    pktAlive,       \* the LwPkt half has not been dropped
    rawAlive,       \* the LwPktRaw half has not been dropped
    wire,           \* bytes the transport holds for LwPktRaw::write
    op,             \* the last call and what it returned
    plan,           \* history: the frames of the inbound stream
    sent,           \* history: [addr, package] of each LwPkt::write that returned Ok
    pushed,         \* history: bytes pushed onto the outbound channel
    delivered,      \* history: bytes LwPktRaw::read reported to its caller
    fed,            \* history: bytes LwPktRaw::write reported as accepted
    got,            \* history: packages LwPkt::read returned
    errs,           \* history: decode errors LwPkt::read returned
    nwrites,        \* history: calls of LwPkt::write
    blocked         \* the owner of LwPkt is inside a read() that does not return

vars == <<lwpkt, read_buffer, write_buffer, rsize, wsize, to_raw, from_raw,
          last_read, pktAlive, rawAlive, wire, op, plan, sent, pushed,
          delivered, fed, got, errs, nwrites, blocked>>

\* LwPkt::new(read_buffer, write_buffer): empty rings and channels, zeroed
\* codec, both halves alive. LwRb::new(size) takes any size; with size 0
\* the ring stores nothing.
New ==
    /\ lwpkt = [addr |-> 0, m |-> IdleM]
    /\ read_buffer = <<>>
    /\ write_buffer = <<>>
    /\ rsize \in {0, SmallRb, BigRb}
    /\ wsize \in {WriteRb, BigRb}
    /\ to_raw = <<>>
    /\ from_raw = <<>>
    /\ last_read = <<>>
    /\ pktAlive = TRUE
    /\ rawAlive = TRUE
    /\ op = NoOp
    /\ sent = <<>> /\ pushed = <<>> /\ delivered = <<>> /\ fed = <<>>
    /\ got = <<>> /\ errs = <<>> /\ nwrites = 0
    /\ blocked = FALSE

\* Loop-back: the transport writes back what it has read.
Init == New /\ rsize > 0 /\ wsize = BigRb /\ wire = <<>> /\ plan = <<>>

\* Outbound: nothing is read by the codec; outbound rings of both sizes.
InitOut == New /\ rsize = BigRb /\ wire = <<>> /\ plan = <<>>

\* All operations, inbound rings of any size.
InitAll == New /\ wsize = BigRb /\ wire = <<>> /\ plan = <<>>

\* Inbound: the transport holds a stream of frames to write.
InitIn == New /\ rsize > 0 /\ wsize = BigRb /\ plan \in Plans /\ wire = PlanBytes(plan)

\* ----------------------------------------------------------------- actions
SetAddres(a) ==
    /\ pktAlive /\ ~blocked
    /\ lwpkt' = [lwpkt EXCEPT !.addr = a]
    /\ op' = [NoOp EXCEPT !.name = "set_addres"]
    /\ UNCHANGED <<read_buffer, write_buffer, rsize, wsize, to_raw, from_raw,
                   last_read, pktAlive, rawAlive, wire, plan, sent, pushed,
                   delivered, fed, got, errs, nwrites, blocked>>

PktWrite(p) ==
    /\ pktAlive /\ ~blocked
    /\ LET res == LwPktWrite(lwpkt.addr, write_buffer, wsize, to_raw, ~rawAlive, p)
       IN  /\ write_buffer' = res.wb
           /\ to_raw' = res.chan
           /\ pushed' = pushed \o res.pushed
           /\ sent' = IF res.ret = "Ok"
                      THEN Append(sent, [addr |-> lwpkt.addr, package |-> p])
                      ELSE sent
           /\ op' = [NoOp EXCEPT !.name = "write", !.ret = res.ret,
                                 !.stage = res.stage, !.package = p]
    /\ nwrites' = nwrites + 1
    /\ UNCHANGED <<lwpkt, read_buffer, rsize, wsize, from_raw, last_read,
                   pktAlive, rawAlive, wire, plan, delivered, fed, got, errs,
                   blocked>>

PktRead ==
    /\ pktAlive /\ ~blocked
    /\ \E res \in {LwPktRead(from_raw, ~rawAlive, lwpkt.m, read_buffer, rsize)} :
           /\ lwpkt' = [lwpkt EXCEPT !.m = res.m]
           /\ read_buffer' = res.rb
           /\ from_raw' = res.chan
           /\ got' = got \o res.pkgs
           /\ errs' = IF res.ret \in {"Ok", "ErrorClosedRaw", "NoReturn"} THEN errs
                      ELSE Append(errs, res.ret)
           /\ op' = [NoOp EXCEPT !.name = "read", !.ret = res.ret,
                                 !.pkgs = res.pkgs,
                                 !.decoded = res.decoded,
                                 !.buf = res.dropped,
                                 !.cnt = Len(Flatten(from_raw)) - Len(Flatten(res.chan))]
           /\ blocked' = (res.ret = "NoReturn")
    /\ UNCHANGED <<write_buffer, rsize, wsize, to_raw, last_read, pktAlive,
                   rawAlive, wire, plan, sent, pushed, delivered, fed, nwrites>>

RawRead(n) ==
    /\ rawAlive
    /\ LET res == LwPktRawRead(last_read, to_raw, ~pktAlive, n)
           bytes == IF res.ret = "Ok" THEN SubSeq(res.out, 1, res.cnt) ELSE <<>>
       IN  /\ last_read' = res.last_read
           /\ to_raw' = res.chan
           /\ delivered' = delivered \o bytes
           /\ wire' = wire \o bytes
           /\ op' = [NoOp EXCEPT !.name = "raw_read", !.ret = res.ret,
                                 !.cnt = res.cnt, !.n = n, !.buf = res.out]
    /\ UNCHANGED <<lwpkt, read_buffer, write_buffer, rsize, wsize, from_raw,
                   pktAlive, rawAlive, plan, sent, pushed, fed, got, errs,
                   nwrites, blocked>>

RawWrite(k) ==
    /\ rawAlive
    /\ k <= Len(wire)
    /\ LET chunk == SubSeq(wire, 1, k)
           res == LwPktRawWrite(from_raw, ~pktAlive, chunk)
       IN  /\ from_raw' = res.chan
           /\ wire' = SubSeq(wire, res.cnt + 1, Len(wire))
           /\ fed' = fed \o SubSeq(chunk, 1, res.cnt)
           /\ op' = [NoOp EXCEPT !.name = "raw_write", !.ret = res.ret,
                                 !.cnt = res.cnt, !.n = k, !.buf = chunk]
    /\ UNCHANGED <<lwpkt, read_buffer, write_buffer, rsize, wsize, to_raw,
                   last_read, pktAlive, rawAlive, plan, sent, pushed,
                   delivered, got, errs, nwrites, blocked>>

\* The owner drops the LwPktRaw half: both channels are closed for LwPkt.
DropRaw ==
    /\ rawAlive
    /\ rawAlive' = FALSE
    /\ op' = [NoOp EXCEPT !.name = "drop_raw"]
    /\ UNCHANGED <<lwpkt, read_buffer, write_buffer, rsize, wsize, to_raw,
                   from_raw, last_read, pktAlive, wire, plan, sent, pushed,
                   delivered, fed, got, errs, nwrites, blocked>>

\* The owner drops the LwPkt half: both channels are closed for LwPktRaw.
DropPkt ==
    /\ pktAlive /\ ~blocked
    /\ pktAlive' = FALSE
    /\ op' = [NoOp EXCEPT !.name = "drop_pkt"]
    /\ UNCHANGED <<lwpkt, read_buffer, write_buffer, rsize, wsize, to_raw,
                   from_raw, last_read, rawAlive, wire, plan, sent, pushed,
                   delivered, fed, got, errs, nwrites, blocked>>

\* ----------------------------------------------------------- specifications
\* Loop-back: packets are written, the transport reads the bytes and writes
\* them back, the codec reads them.
Next ==
    \/ \E a \in Addrs : SetAddres(a)
    \/ \E p \in Packages : nwrites < LoopWrites /\ PktWrite(p)
    \/ \E n \in ReadSizes : RawRead(n)
    \/ wire # <<>> /\ RawWrite(Len(wire))
    \/ PktRead

Spec == Init /\ [][Next]_vars

\* Outbound side alone: the transport only reads.
NextOut ==
    \/ \E p \in Packages : nwrites < OutWrites /\ PktWrite(p)
    \/ \E n \in ReadSizes : RawRead(n)
    \/ DropRaw
    \/ DropPkt

SpecOut == InitOut /\ [][NextOut]_vars

\* Inbound side alone: the transport writes a stream of frames in chunks.
NextIn ==
    \/ \E k \in ChunkSizes \cup {Len(wire)} : RawWrite(k)
    \/ PktRead
    \/ DropRaw
    \/ DropPkt

SpecIn == InitIn /\ [][NextIn]_vars

\* All operations together, either half may be dropped: the transport
\* writes back what it has read.
NextAll ==
    \/ \E p \in Packages : nwrites < LoopWrites /\ PktWrite(p)
    \/ \E n \in {DrainBuf, BigRb} : RawRead(n)
    \/ wire # <<>> /\ RawWrite(Len(wire))
    \/ PktRead
    \/ DropRaw
    \/ DropPkt

SpecAll == InitAll /\ [][NextAll]_vars

\* =================================================================== claims
\* The package a correct decoder reports for a frame written with local
\* address addr: the caller's package with from replaced by addr.
ExpectOf(w) == [w.package EXCEPT !.from = w.addr]

\* Frames of the packages LwPkt::write accepts, for every local address.
AllFrames ==
    {FrameOf(a, p) : a \in Addrs \cup {0},
                     p \in {q \in Packages : Len(q.data) <= MAX_DATA_LEN}}

RECURSIVE IsFrameConcat(_)
IsFrameConcat(bytes) ==
    \/ bytes = <<>>
    \/ \E fr \in AllFrames :
          /\ IsPrefix(fr, bytes)
          /\ IsFrameConcat(SubSeq(bytes, Len(fr) + 1, Len(bytes)))

\* C3: a LwPkt::write that fails with ErrorMem at the channel stage has not
\* been performed: nothing of the frame was pushed onto the outbound
\* channel and nothing of it stays in the outbound ring, so a retry sends
\* the frame once.
CE_C3_FailedWriteNotPerformed ==
    [][(op'.name = "write" /\ op'.ret = "ErrorMem" /\ op'.stage = "channel")
         => (to_raw' = to_raw /\ write_buffer' = write_buffer /\ pushed' = pushed)
      ]_vars

\* C4: with the outbound channel full and the transport alive, LwPkt::write
\* returns ErrorMem; a write returns Ok only from a state in which the
\* channel was not full.
C4_Backpressure ==
    [][(op'.name = "write")
         => /\ (Len(to_raw) >= ChanCap /\ rawAlive) => op'.ret = "ErrorMem"
            /\ op'.ret = "Ok" => Len(to_raw) < ChanCap
      ]_vars

\* C4 witness: a write has just failed with ErrorMem at the channel stage
\* with ChanCap chunks queued.
W_C4_FullChannelRefused ==
    /\ op.name = "write" /\ op.ret = "ErrorMem" /\ op.stage = "channel"
    /\ Len(to_raw) = ChanCap
    /\ rawAlive

\* C5: the bytes pushed onto the outbound channel are always a concatenation
\* of whole frames of packages given to LwPkt::write.
CE_C5_NoPartialFrame == IsFrameConcat(pushed)

\* C8: the bytes pushed onto the outbound channel are the bytes delivered by
\* LwPktRaw::read, then last_read, then the chunks still queued, on every
\* path of LwPktRaw::read.
CE_C8_ByteStream == pushed = delivered \o last_read \o Flatten(to_raw)

\* C9: while the codec half is alive, LwPktRaw::read with a buffer of length
\* n returns Ok(min(n, bytes in last_read and in the queued chunks)).
C9_ReadFillsBuffer ==
    [][(op'.name = "raw_read" /\ pktAlive)
         => /\ op'.ret = "Ok"
            /\ op'.cnt = Min(op'.n, Len(last_read) + Len(Flatten(to_raw)))
            /\ Len(op'.buf) = op'.cnt
      ]_vars

\* C9 witness: one read joined more than one queued chunk and was short
\* because nothing more was buffered.
W_C9_ShortReadAcrossChunks ==
    /\ op.name = "raw_read" /\ op.ret = "Ok"
    /\ op.cnt > DrainBuf /\ op.cnt < op.n
    /\ pktAlive

\* ------------------------------------------------------------ inbound side
\* The number of frames of the stream pl that lie wholly in its first n bytes.
RECURSIVE FramesWithin(_, _)
FramesWithin(pl, n) ==
    IF pl = <<>> \/ Len(ItemBytes(Head(pl))) > n THEN 0
    ELSE 1 + FramesWithin(Tail(pl), n - Len(ItemBytes(Head(pl))))

PlanPkts(pl, k) == [i \in 1..k |-> pl[i].pkt]
AllValid(pl) == \A i \in DOMAIN pl : pl[i].pos = 0

\* C2: M >= 1 whole valid frames (and possibly the start of another) have
\* been handed to the inbound side and nothing of them has been read yet;
\* then one call of LwPkt::read returns exactly the M packages, in order.
CE_C2_BatchDecode ==
    [][(/\ op'.name = "read"
        /\ rawAlive
        /\ AllValid(plan)
        /\ Flatten(from_raw) = fed /\ read_buffer = <<>> /\ lwpkt.m = IdleM
        /\ FramesWithin(plan, Len(fed)) >= 1)
         => /\ op'.ret = "Ok"
            /\ op'.pkgs = PlanPkts(plan, FramesWithin(plan, Len(fed)))
      ]_vars

\* C6: a frame with one flipped bit in its payload or checksum, then a valid
\* frame, have been handed over and read() has returned Ok with nothing left
\* on the inbound channel: the corrupted frame was reported by exactly one
\* ErrorCRC, the valid frame has been returned, the decoder is idle.
CE_C6_CorruptionThenValid ==
    (/\ Len(plan) = 2 /\ plan[1].pos # 0 /\ plan[2].pos = 0
     /\ wire = <<>> /\ from_raw = <<>> /\ rawAlive
     /\ op.name = "read" /\ op.ret = "Ok")
      => /\ errs = <<"ErrorCRC">>
         /\ got = <<plan[2].pkt>>
         /\ lwpkt.m.state = ST_START

\* C7: one valid frame, handed over in pieces of any sizes with read() calls
\* in between: read() returns nothing but the frame's package, at most once
\* and never an error, and has returned it once all pieces were read.
C7_ChunkTransparency ==
    (Len(plan) = 1 /\ plan[1].pos = 0)
      => /\ got \in {<<>>, <<plan[1].pkt>>}
         /\ errs = <<>>
         /\ (wire = <<>> /\ from_raw = <<>> /\ rawAlive /\ op.name = "read")
              => got = <<plan[1].pkt>>

\* C7 witness: the package of a frame with the longest payload was returned
\* by a read() that took only the last pieces of the frame from the channel,
\* with an inbound ring smaller than the frame.
W_C7_SplitFrameDecoded ==
    /\ Len(plan) = 1 /\ plan[1].pos = 0
    /\ Len(plan[1].pkt.data) = MAX_DATA_LEN
    /\ rsize = SmallRb
    /\ op.name = "read" /\ op.pkgs = <<plan[1].pkt>>
    /\ op.cnt < Len(fed)

\* C10: LwPktRaw::write returns Ok(len) with the buffer queued as it is when
\* the inbound channel has room, Ok(0) with nothing queued when it is full,
\* and an error, with nothing queued, exactly when the codec half is gone.
C10_RawWriteCount ==
    [][(op'.name = "raw_write")
         => LET buf == SubSeq(wire, 1, op'.n)
            IN  /\ (op'.ret = "Err") <=> ~pktAlive
                /\ op'.ret = "Ok" => op'.cnt \in {0, Len(buf)}
                /\ (pktAlive /\ Len(from_raw) < ChanCap) => op'.cnt = Len(buf)
                /\ Flatten(from_raw') = Flatten(from_raw) \o SubSeq(buf, 1, op'.cnt)
                /\ (op'.ret = "Err" \/ Len(from_raw) >= ChanCap)
                     => (from_raw' = from_raw /\ op'.cnt = 0)
      ]_vars

\* C10 witness: a write of a non-empty buffer returned Ok(0) because the
\* inbound channel was full.
W_C10_FullReturnsZero ==
    /\ op.name = "raw_write" /\ op.ret = "Ok" /\ op.cnt = 0 /\ op.n > 0
    /\ Len(from_raw) = ChanCap
    /\ pktAlive

\* ------------------------------------------------------------ loop-back
\* C1: one package was written with Ok, all bytes pushed for it were taken
\* through LwPktRaw::read and handed back through LwPktRaw::write, and
\* read() has run since: read() has returned exactly one package, with the
\* cmd, to and data written and from = the local address of the writer.
C1_RoundTrip ==
    (/\ nwrites = 1 /\ Len(sent) = 1
     /\ to_raw = <<>> /\ last_read = <<>> /\ wire = <<>>
     /\ fed = pushed /\ pushed # <<>>
     /\ from_raw = <<>> /\ op.name = "read")
      => /\ op.ret = "Ok"
         /\ got = <<ExpectOf(sent[1])>>
         /\ errs = <<>>

\* C1 witness: the round trip of a package with the longest payload whose
\* from field differs from the local address set with set_addres.
W_C1_RoundTripDone ==
    /\ Len(sent) = 1
    /\ sent[1].addr \in Addrs
    /\ sent[1].package.from # sent[1].addr
    /\ Len(sent[1].package.data) = MAX_DATA_LEN
    /\ nwrites = 1
    /\ to_raw = <<>> /\ last_read = <<>> /\ wire = <<>>
    /\ fed = pushed /\ pushed # <<>>
    /\ op.name = "read" /\ op.pkgs = <<ExpectOf(sent[1])>>

CE_C13_RingRejectionIsErrorMem ==
    [][(/\ op'.name = "read"
        /\ from_raw # <<>>
        /\ Len(Head(from_raw)) > rsize - Len(read_buffer))
         => op'.ret = "ErrorMem"
      ]_vars

\* C16: every package decoded during a call of read() is part of what the
\* call returns to the caller.
CE_C16_DecodedIsDelivered ==
    op.name = "read" => op.pkgs = op.decoded

\* C18: when read() ends, every byte of every chunk it took from the inbound
\* channel has been written into the inbound ring.
CE_C18_ChunkBytesStored ==
    op.name = "read" => op.buf = <<>>

\* The packages of the valid frames of a stream, in the order of the frames.
RECURSIVE ValidPkts(_)
ValidPkts(pl) ==
    IF pl = <<>> THEN <<>>
    ELSE IF Head(pl).pos = 0 THEN <<Head(pl).pkt>> \o ValidPkts(Tail(pl))
    ELSE ValidPkts(Tail(pl))

RECURSIVE IsSubseq(_, _)
IsSubseq(xs, ys) ==
    IF xs = <<>> THEN TRUE
    ELSE IF ys = <<>> THEN FALSE
    ELSE IF Head(xs) = Head(ys) THEN IsSubseq(Tail(xs), Tail(ys))
    ELSE IsSubseq(xs, Tail(ys))

\* C19: the packages returned by read(), within one call and across calls,
\* are packages of valid frames of the inbound stream, in the order of the
\* frames, each frame at most once.
C19_Ordering == IsSubseq(got, ValidPkts(plan))

\* C19 witness: one call of read() returned two different packages, in the
\* order of their frames.
W_C19_TwoInOneCall ==
    /\ op.name = "read" /\ Len(op.pkgs) = 2
    /\ op.pkgs[1] # op.pkgs[2]
    /\ got = op.pkgs

\* ------------------------------------------------ outbound side, continued
\* C14: a write whose payload is longer than MAX_DATA_LEN, or whose frame
\* does not fit the free space of the outbound ring, returns ErrorMem and
\* leaves the outbound ring and the outbound channel as they were.
C14_RefusedWriteHasNoEffect ==
    [][(/\ op'.name = "write"
        /\ \/ Len(op'.package.data) > MAX_DATA_LEN
           \/ Len(FrameOf(lwpkt.addr, op'.package)) > wsize - Len(write_buffer))
         => /\ op'.ret = "ErrorMem"
            /\ write_buffer' = write_buffer
            /\ to_raw' = to_raw
            /\ pushed' = pushed
      ]_vars

\* C14 witness: a package of allowed length was refused because its frame
\* did not fit next to the bytes left in the outbound ring.
W_C14_FrameDoesNotFit ==
    /\ op.name = "write" /\ op.stage = "encode" /\ op.ret = "ErrorMem"
    /\ Len(op.package.data) <= MAX_DATA_LEN
    /\ write_buffer # <<>>

\* C20: when write returns Ok or an error of the channel stage, the outbound
\* ring is empty.
CE_C20_WriteRingEmptied ==
    (op.name = "write" /\ (op.ret = "Ok" \/ op.stage = "channel"))
      => write_buffer = <<>>

\* --------------------------------------------------------- all operations
\* C12: a dropped half stays dropped. After the LwPktRaw half was dropped no
\* write and no read returns Ok, a write whose frame was encoded returns
\* ErrorClosedRaw, and a read with no chunk queued returns ErrorClosedRaw.
\* After the LwPkt half was dropped every LwPktRaw::write returns an error.
C12_ClosedIsTerminal ==
    [][/\ ~rawAlive => ~rawAlive'
       /\ ~pktAlive => ~pktAlive'
       /\ (op'.name = "write" /\ ~rawAlive)
            => /\ op'.ret # "Ok"
               /\ op'.stage = "channel" => op'.ret = "ErrorClosedRaw"
       /\ (op'.name = "read" /\ ~rawAlive)
            => /\ op'.ret # "Ok"
               /\ from_raw = <<>> => op'.ret = "ErrorClosedRaw"
       /\ (op'.name = "raw_write" /\ ~pktAlive) => op'.ret = "Err"
      ]_vars

\* C12 witness: after the LwPktRaw half was dropped a read() consumed the
\* chunks still queued and returned ErrorClosedRaw.
W_C12_ReadAfterDrop ==
    /\ ~rawAlive
    /\ op.name = "read" /\ op.ret = "ErrorClosedRaw" /\ op.cnt > 0
    /\ from_raw = <<>>

\* C15: every call of LwPkt::read returns.
CE_C15_ReadReturns ==
    op.name = "read" => op.ret # "NoReturn"

\* ----------------------------------------------------------------- delivery
\* C17: all bytes of a stream of valid frames have been accepted by
\* LwPktRaw::write, both halves are alive, and the owner has gone on calling
\* read() until a call found the channel empty and took nothing (from then
\* on read() changes nothing, C11): every frame's package has been returned.
CE_C17_EventualDelivery ==
    (/\ AllValid(plan)
     /\ wire = <<>> /\ from_raw = <<>>
     /\ rawAlive /\ pktAlive
     /\ op.name = "read" /\ op.ret = "Ok" /\ op.cnt = 0)
      => got = ValidPkts(plan)

====
